---- MODULE Spec2Model ----
(***************************************************************************)
(* The invoicing simulator of cc-tp: the InvoicingSimulator component      *)
(* (selected product instance, selected flavors, the four rendered views)  *)
(* over a catalog of product instances supplied through its props.         *)
(*                                                                         *)
(* Objects are modelled by value: a product instance by its id, a flavor   *)
(* by the record of the fields the simulator reads.  The catalog holds one *)
(* object per instance id and one per (instance id, flavor name), so the   *)
(* reference comparisons of the code (===, !==, Array.includes) are the    *)
(* equalities of these values.  Names are modelled by their rank in        *)
(* lexicographic order, prices in thousandths of a euro.                   *)
(***************************************************************************)
EXTENDS Integers, Sequences, FiniteSets, TLC

VARIABLES
    productInstances,         \* this.props.productInstances: the array, in its current order
    selectedProductInstance,  \* this.state.selectedProductInstance (an instance id, or Null)
    selectedFlavors,          \* this.state.selectedFlavors
    last,                     \* history: the last handler that ran, and the state it ran in
    pc,                       \* getProductInstances: where the call stands
    preloadProductLogos,      \* getProductInstances: its argument
    response,                 \* _fetchProductInstances: the response of fetch()
    result,                   \* getProductInstances: the converted product instances
    images,                   \* the Image of each _preloadImage call: loading, loaded or failed
    outcome,                  \* the promise getProductInstances returned
    trace                     \* history: the requests issued and what was read of the response

vars == <<productInstances, selectedProductInstance, selectedFlavors, last>>

serviceVars == <<pc, preloadProductLogos, response, result, images, outcome, trace>>

allVars == <<vars, serviceVars>>

----------------------------------------------------------------------------
(* Bounds of the model. *)

NumInstances == 2
FlavorsPerInstance == 2
MaxSelected == 3
MaxRawInstances == 3

----------------------------------------------------------------------------
(* The catalog: ProductInstanceModel and ProductFlavorModel values. *)

Null == 0

InstanceIds == 1..NumInstances

FlavorNames == 1..FlavorsPerInstance

\* Display names: two instances may share a name, and name order need not be id order.
InstanceName(id) == (NumInstances - id) \div 2

PriceTable == <<100000, 419040>>

\* The flavor fields of the history before any flavor handler has run.
NoFlavor == [instance |-> Null, name |-> 0, price |-> 0]

\* Flavors of different names, and of different instances, may share a price.
FlavorPrice(id, name) == PriceTable[(((id + name) \div 2) % 2) + 1]

ProductFlavorModel(id, name) ==
    [instance |-> id, name |-> name, price |-> FlavorPrice(id, name)]

\* productInstance.flavors: the array as converted, in the order of the raw
\* records (here by descending name, which is not the comparator's order).
InstanceFlavors(id) ==
    [k \in 1..FlavorsPerInstance |-> ProductFlavorModel(id, FlavorsPerInstance + 1 - k)]

AllFlavors == {ProductFlavorModel(id, name) : id \in InstanceIds, name \in FlavorNames}

\* The catalog arrays the parent may supply: every order of the instances.
Catalogs ==
    {s \in [1..NumInstances -> InstanceIds] : \A i \in InstanceIds : \E k \in 1..NumInstances : s[k] = i}

----------------------------------------------------------------------------
(* Array helpers (Array.prototype.filter is SelectSeq). *)

Range(s) == {s[k] : k \in 1..Len(s)}

Max(S) == CHOOSE x \in S : \A y \in S : y <= x

Sign(x) == IF x < 0 THEN -1 ELSE IF x > 0 THEN 1 ELSE 0

\* Array.prototype.includes
ArrayIncludes(s, x) == \E k \in 1..Len(s) : s[k] = x

----------------------------------------------------------------------------
(* Comparators of productInstance/productInstanceComparators, which the     *)
(* simulator imports; they are written from their specification.           *)

\* By display name, ties broken by identifier.
productInstanceComparator(a, b) ==
    IF InstanceName(a) # InstanceName(b)
    THEN Sign(InstanceName(a) - InstanceName(b))
    ELSE Sign(a - b)

\* By price ascending, ties broken by name, then by owning-instance identifier.
productFlavorComparator(a, b) ==
    IF a.price # b.price THEN Sign(a.price - b.price)
    ELSE IF a.name # b.name THEN Sign(a.name - b.name)
    ELSE Sign(a.instance - b.instance)

\* A comparator passed as an argument, by its name.
Compare(comparator, a, b) ==
    IF comparator = "productFlavorComparator"
    THEN productFlavorComparator(a, b)
    ELSE productInstanceComparator(a, b)

\* One step of a stable insertion sort: x moves left past every element that
\* compares greater than it.
InsertSorted(t, x, comparator) ==
    LET stops == {k \in 1..Len(t) : Compare(comparator, t[k], x) <= 0}
        p == IF stops = {} THEN 0 ELSE Max(stops)
    IN  SubSeq(t, 1, p) \o <<x>> \o SubSeq(t, p + 1, Len(t))

\* Array.prototype.sort(comparator): a stable comparison sort.
ArraySort(s, comparator) ==
    LET sorted[k \in 0..Len(s)] ==
            IF k = 0 THEN <<>> ELSE InsertSorted(sorted[k - 1], s[k], comparator)
    IN  sorted[Len(s)]

----------------------------------------------------------------------------
(* State modifiers and views of InvoicingSimulator. *)

\* Mutant of setSelectedFlavors: the array is stored as given, unsorted.
setSelectedFlavorsUnsorted(flavors) == flavors

\* setSelectedFlavors: the value stored in state.selectedFlavors.
setSelectedFlavors(flavors) == ArraySort(flavors, "productFlavorComparator")

\* renderProductInstances: the items of the catalog list; the sort is in place,
\* so this is also the new content of the props array.
renderProductInstances == ArraySort(productInstances, "productInstanceComparator")

\* Mutant of renderProductFlavors: the selected flavors are not filtered out.
renderProductFlavorsUnfiltered ==
    LET flavors == IF selectedProductInstance = Null
                   THEN <<>>
                   ELSE InstanceFlavors(selectedProductInstance)
    IN  ArraySort(flavors, "productFlavorComparator")

\* Mutant of renderProductFlavors: the filtered array is not sorted.
renderProductFlavorsUnsorted ==
    LET flavors == IF selectedProductInstance = Null
                   THEN <<>>
                   ELSE InstanceFlavors(selectedProductInstance)
        NotSelected(f) == ~ArrayIncludes(selectedFlavors, f)
    IN  SelectSeq(flavors, NotSelected)

\* Mutant of renderProductFlavors: the flavors of every instance of the
\* catalog are offered, not those of the selected instance alone.
renderProductFlavorsOfCatalog ==
    LET flavors[k \in 0..Len(productInstances)] ==
            IF k = 0 THEN <<>> ELSE flavors[k - 1] \o InstanceFlavors(productInstances[k])
        NotSelected(f) == ~ArrayIncludes(selectedFlavors, f)
    IN  IF selectedProductInstance = Null
        THEN <<>>
        ELSE ArraySort(SelectSeq(flavors[Len(productInstances)], NotSelected),
                       "productFlavorComparator")

\* renderProductFlavors: the items of the selectable-flavor list.
renderProductFlavors ==
    LET flavors == IF selectedProductInstance = Null
                   THEN <<>>
                   ELSE InstanceFlavors(selectedProductInstance)
        NotSelected(f) == ~ArrayIncludes(selectedFlavors, f)
    IN  ArraySort(SelectSeq(flavors, NotSelected), "productFlavorComparator")

\* renderSelectedFlavors: the items of the selected-flavor list.
renderSelectedFlavors == selectedFlavors

\* Mutant of renderHeader: only the flavors of the selected instance are summed.
renderHeaderOfSelectedInstance ==
    LET sum[k \in 0..Len(selectedFlavors)] ==
            IF k = 0 THEN 0
            ELSE sum[k - 1] + (IF selectedFlavors[k].instance = selectedProductInstance
                               THEN selectedFlavors[k].price ELSE 0)
    IN  sum[Len(selectedFlavors)]

\* renderHeader: totalPrice, prices reduced with + from 0.
renderHeader ==
    LET sum[k \in 0..Len(selectedFlavors)] ==
            IF k = 0 THEN 0 ELSE sum[k - 1] + selectedFlavors[k].price
    IN  sum[Len(selectedFlavors)]

\* productFlavorItemId: `${instance.id}/${name}`
productFlavorItemId(f) == <<f.instance, f.name>>

----------------------------------------------------------------------------
(* Handlers.  Each one sets the state and React renders again, which sorts *)
(* the props array in place.                                               *)

\* History: the handler that runs, its argument, the state it runs in, the
\* flavor the handler before it added and, when that is the same flavor, the
\* state that one ran in.
Before(op, productInstance, productFlavor) ==
    LET afterAdd == last.op = "addFlavor" /\ last.flavor = productFlavor
    IN  [op |-> op, instance |-> productInstance, flavor |-> productFlavor,
         selectedFlavors |-> selectedFlavors,
         selectedProductInstance |-> selectedProductInstance,
         previous |-> IF last.op = "addFlavor" THEN last.flavor ELSE NoFlavor,
         afterAdd |-> afterAdd,
         prior |-> IF afterAdd THEN last.selectedFlavors ELSE <<>>,
         priorInstance |-> IF afterAdd THEN last.selectedProductInstance ELSE Null]

Init ==
    /\ productInstances \in Catalogs
    /\ selectedProductInstance = Null
    /\ selectedFlavors = <<>>
    /\ last = [op |-> "none", instance |-> Null, flavor |-> NoFlavor,
               selectedFlavors |-> <<>>, selectedProductInstance |-> Null,
               previous |-> NoFlavor, afterAdd |-> FALSE, prior |-> <<>>, priorInstance |-> Null]

\* render(), with no change of state (mount, or the parent rendering again).
render ==
    /\ productInstances' = renderProductInstances
    /\ UNCHANGED <<selectedProductInstance, selectedFlavors, last>>
    /\ UNCHANGED serviceVars

\* Mutant of onSelectProductInstance: the selection is emptied on a switch.
onSelectProductInstanceClearing(productInstance) ==
    /\ selectedProductInstance' = productInstance
    /\ selectedFlavors' = <<>>
    /\ productInstances' = renderProductInstances
    /\ last' = Before("selectInstance", productInstance, NoFlavor)
    /\ UNCHANGED serviceVars

\* Mutant of onSelectProductInstance: choosing the selected instance again
\* unselects it.
onSelectProductInstanceToggling(productInstance) ==
    /\ selectedProductInstance' =
           IF selectedProductInstance = productInstance THEN Null ELSE productInstance
    /\ UNCHANGED selectedFlavors
    /\ productInstances' = renderProductInstances
    /\ last' = Before("selectInstance", productInstance, NoFlavor)
    /\ UNCHANGED serviceVars

onSelectProductInstance(productInstance) ==
    /\ selectedProductInstance' = productInstance
    /\ UNCHANGED selectedFlavors
    /\ productInstances' = renderProductInstances
    /\ last' = Before("selectInstance", productInstance, NoFlavor)
    /\ UNCHANGED serviceVars

\* Mutant of onSelectProductFlavor: the array is read from the state as it was
\* before the preceding handler ran.
onSelectProductFlavorStale(productFlavor) ==
    /\ selectedFlavors' = setSelectedFlavors(Append(last.selectedFlavors, productFlavor))
    /\ UNCHANGED selectedProductInstance
    /\ productInstances' = renderProductInstances
    /\ last' = Before("addFlavor", Null, productFlavor)
    /\ UNCHANGED serviceVars

onSelectProductFlavor(productFlavor) ==
    /\ selectedFlavors' = setSelectedFlavors(Append(selectedFlavors, productFlavor))
    /\ UNCHANGED selectedProductInstance
    /\ productInstances' = renderProductInstances
    /\ last' = Before("addFlavor", Null, productFlavor)
    /\ UNCHANGED serviceVars

\* Mutant of onUnselectProductFlavor: flavors are compared by name alone.
onUnselectProductFlavorByName(productFlavor) ==
    /\ LET Other(f) == f.name # productFlavor.name
       IN  selectedFlavors' = setSelectedFlavors(SelectSeq(selectedFlavors, Other))
    /\ UNCHANGED selectedProductInstance
    /\ productInstances' = renderProductInstances
    /\ last' = Before("removeFlavor", Null, productFlavor)
    /\ UNCHANGED serviceVars

\* Mutant of onUnselectProductFlavor: splice(indexOf(productFlavor), 1), which
\* drops the last flavor when productFlavor is not in the array.
onUnselectProductFlavorSplicing(productFlavor) ==
    /\ LET found == {k \in 1..Len(selectedFlavors) : selectedFlavors[k] = productFlavor}
           at == IF found = {} THEN Len(selectedFlavors)
                 ELSE CHOOSE k \in found : \A j \in found : k <= j
       IN  selectedFlavors' =
               setSelectedFlavors(SubSeq(selectedFlavors, 1, at - 1)
                                  \o SubSeq(selectedFlavors, at + 1, Len(selectedFlavors)))
    /\ UNCHANGED selectedProductInstance
    /\ productInstances' = renderProductInstances
    /\ last' = Before("removeFlavor", Null, productFlavor)
    /\ UNCHANGED serviceVars

onUnselectProductFlavor(productFlavor) ==
    /\ LET Other(f) == f # productFlavor
       IN  selectedFlavors' = setSelectedFlavors(SelectSeq(selectedFlavors, Other))
    /\ UNCHANGED selectedProductInstance
    /\ productInstances' = renderProductInstances
    /\ last' = Before("removeFlavor", Null, productFlavor)
    /\ UNCHANGED serviceVars

----------------------------------------------------------------------------
(* The simulator driven through its rendered lists: a handler runs only    *)
(* from the button of an item that the last render put on screen.          *)

\* The items that carry a button after a render.
ProductInstanceButtons == Range(renderProductInstances)

ProductFlavorButtons == Range(renderProductFlavors)

SelectedFlavorButtons == Range(renderSelectedFlavors)

ClickProductInstance(productInstance) ==
    /\ productInstance \in ProductInstanceButtons
    /\ onSelectProductInstance(productInstance)

ClickProductFlavor(productFlavor) ==
    /\ productFlavor \in ProductFlavorButtons
    /\ onSelectProductFlavor(productFlavor)

ClickSelectedFlavor(productFlavor) ==
    /\ productFlavor \in SelectedFlavorButtons
    /\ onUnselectProductFlavor(productFlavor)

Next ==
    \/ render
    \/ \E i \in InstanceIds : ClickProductInstance(i)
    \/ \E f \in ProductFlavorButtons : ClickProductFlavor(f)
    \/ \E f \in SelectedFlavorButtons : ClickSelectedFlavor(f)


----------------------------------------------------------------------------
(* The selection layer on its own: the handlers called with any instance   *)
(* and any flavor of the catalog, whatever the lists show.                 *)

CallSelectProductFlavor(productFlavor) ==
    /\ Len(selectedFlavors) < MaxSelected
    /\ onSelectProductFlavor(productFlavor)

NextHandlers ==
    \/ render
    \/ \E i \in InstanceIds : onSelectProductInstance(i)
    \/ \E f \in AllFlavors : CallSelectProductFlavor(f)
    \/ \E f \in AllFlavors : onUnselectProductFlavor(f)


----------------------------------------------------------------------------
(* ProductInstancesService: one call of getProductInstances.               *)

\* The legacy factor 41.904 applied to raw prices, in thousandths.
LegacyPriceFactor == 41904

\* Raw prices of the API, in whole units; the first flavor of the first
\* record costs 10.
RawPrice(k, j) == 10 * j + (k - 1)

\* A raw product instance as the API serves it (the fields that the converter
\* copies unchanged are represented by description and enabled).
RawProductInstance(k) ==
    [variant |-> [id |-> k, name |-> InstanceName(k), logo |-> k],
     description |-> k,
     enabled |-> k % 2 = 1,
     flavors |-> [j \in 1..FlavorsPerInstance |-> [name |-> j, price |-> RawPrice(k, j)]]]

\* The bodies a successful response may have: no byte at all, the JSON text
\* null, or a JSON array of raw product instances.
Bodies ==
    {[text |-> "empty", records |-> <<>>], [text |-> "null", records |-> <<>>]}
    \cup {[text |-> "array", records |-> [k \in 1..n |-> RawProductInstance(k)]] :
             n \in 0..MaxRawInstances}

Statuses == {200, 404, 500}

\* The messages of the errors fetch() rejects with.
TransportMessages == {"Failed to fetch", "The operation was aborted."}

NoReason ==
    [name |-> "", intro |-> "", status |-> 0, cause |-> "", advice |-> "", target |-> 0]

\* new Error(`We could not fetch product instances. ${e.message} Please retry later.`)
TransportError(message) ==
    [name |-> "Error", intro |-> "We could not fetch product instances.",
     status |-> 0, cause |-> message, advice |-> "Please retry later.", target |-> 0]

\* new Error(`We could not fetch product instances. Server responded with
\* error ${response.status}. Please retry later.`)
StatusError(status) ==
    [name |-> "Error", intro |-> "We could not fetch product instances.",
     status |-> status, cause |-> "Server responded with error",
     advice |-> "Please retry later.", target |-> 0]

\* What response.json() rejects with when the body is no JSON text.
JsonSyntaxError ==
    [name |-> "SyntaxError", intro |-> "", status |-> 0,
     cause |-> "Unexpected end of JSON input", advice |-> "", target |-> 0]

\* The error event image.onerror passes to reject, for the k-th image.
ImageErrorEvent(k) ==
    [name |-> "Event", intro |-> "", status |-> 0, cause |-> "error", advice |-> "",
     target |-> k]

Pending == [state |-> "pending", value |-> <<>>, reason |-> NoReason]

Fulfilled(value) == [state |-> "fulfilled", value |-> value, reason |-> NoReason]

Rejected(reason) == [state |-> "rejected", value |-> <<>>, reason |-> reason]

\* response.ok
ResponseOk(status) == status >= 200 /\ status <= 299

\* response.json(): the parsed body; no byte at all is not a JSON text.
ResponseJson(body) ==
    IF body.text = "empty" THEN [thrown |-> TRUE, isNull |-> FALSE, value |-> <<>>]
    ELSE IF body.text = "null" THEN [thrown |-> FALSE, isNull |-> TRUE, value |-> <<>>]
    ELSE [thrown |-> FALSE, isNull |-> FALSE, value |-> body.records]

\* Mutant of productInstanceConverter: the raw price is stored as it is.
productInstanceConverterRawPrice(rawProductInstance) ==
    [id |-> rawProductInstance.variant.id,
     name |-> rawProductInstance.variant.name,
     description |-> rawProductInstance.description,
     logo |-> rawProductInstance.variant.logo,
     enabled |-> rawProductInstance.enabled,
     flavors |->
         [j \in 1..Len(rawProductInstance.flavors) |->
             [instance |-> rawProductInstance.variant.id,
              name |-> rawProductInstance.flavors[j].name,
              price |-> rawProductInstance.flavors[j].price]]]

\* _productInstanceConverter
productInstanceConverter(rawProductInstance) ==
    [id |-> rawProductInstance.variant.id,
     name |-> rawProductInstance.variant.name,
     description |-> rawProductInstance.description,
     logo |-> rawProductInstance.variant.logo,
     enabled |-> rawProductInstance.enabled,
     flavors |->
         [j \in 1..Len(rawProductInstance.flavors) |->
             [instance |-> rawProductInstance.variant.id,
              name |-> rawProductInstance.flavors[j].name,
              price |-> rawProductInstance.flavors[j].price * LegacyPriceFactor]]]

\* (await this._fetchProductInstances()).map(i => this._productInstanceConverter(i))
ConvertAll(raw) == [k \in 1..Len(raw) |-> productInstanceConverter(raw[k])]

\* Mutant of PreloadImages: the images are loaded one after the other, the
\* first alone being started before the first await.
PreloadImagesInTurn(instances) ==
    [k \in 1..(IF instances = <<>> THEN 0 ELSE 1) |-> "loading"]

\* result.map(r => this._preloadImage(r.logo)): one Image per product instance,
\* its src set, loading.
PreloadImages(instances) == [k \in 1..Len(instances) |-> "loading"]

NoResponse == [status |-> 0, body |-> [text |-> "", records |-> <<>>]]

\* Mutant of Settle: the last settlement wins.
SettleAgain(promise, settled) == settled

\* A promise settles once: settling a settled promise changes nothing.
Settle(promise, settled) == IF promise.state = "pending" THEN settled ELSE promise

ServiceIdle ==
    /\ pc = "idle"
    /\ preloadProductLogos = FALSE
    /\ response = NoResponse
    /\ result = <<>>
    /\ images = <<>>
    /\ outcome = Pending
    /\ trace = [catalogRequests |-> 0, imageRequests |-> 0, statusRead |-> FALSE,
                bodyRead |-> FALSE, fetchError |-> "", converted |-> 0,
                completions |-> <<>>]

\* getProductInstances(preload), up to the await of fetch().
getProductInstances(preload) ==
    /\ pc = "idle"
    /\ pc' = "fetching"
    /\ preloadProductLogos' = preload
    /\ trace' = [trace EXCEPT !.catalogRequests = @ + 1]
    /\ UNCHANGED <<response, result, images, outcome>>
    /\ UNCHANGED vars

\* Mutant of fetchRejects: the request is issued again.
fetchRejectsAndRetries(message) ==
    /\ pc = "fetching"
    /\ trace.catalogRequests < 3
    /\ trace' = [trace EXCEPT !.fetchError = message, !.catalogRequests = @ + 1]
    /\ UNCHANGED <<pc, outcome>>
    /\ UNCHANGED <<preloadProductLogos, response, result, images>>
    /\ UNCHANGED vars

\* Mutant of fetchRejects: the error of fetch() is thrown on as it is.
fetchRejectsRethrowing(message) ==
    /\ pc = "fetching"
    /\ pc' = "done"
    /\ outcome' = Settle(outcome, Rejected([NoReason EXCEPT !.name = "TypeError",
                                                             !.cause = message]))
    /\ trace' = [trace EXCEPT !.fetchError = message]
    /\ UNCHANGED <<preloadProductLogos, response, result, images>>
    /\ UNCHANGED vars

\* fetch() rejects: the catch of _fetchProductInstances throws its own error.
fetchRejects(message) ==
    /\ pc = "fetching"
    /\ pc' = "done"
    /\ outcome' = Settle(outcome, Rejected(TransportError(message)))
    /\ trace' = [trace EXCEPT !.fetchError = message]
    /\ UNCHANGED <<preloadProductLogos, response, result, images>>
    /\ UNCHANGED vars

\* Mutant of fetchResolves: response.ok is not tested.
fetchResolvesUnchecked(status, body) ==
    /\ pc = "fetching"
    /\ response' = [status |-> status, body |-> body]
    /\ pc' = "parsing"
    /\ trace' = [trace EXCEPT !.statusRead = TRUE, !.bodyRead = TRUE]
    /\ UNCHANGED outcome
    /\ UNCHANGED <<preloadProductLogos, result, images>>
    /\ UNCHANGED vars

\* fetch() resolves with a response: its status is read and, if it is ok,
\* response.json() starts reading the body.
fetchResolves(status, body) ==
    /\ pc = "fetching"
    /\ response' = [status |-> status, body |-> body]
    /\ IF ResponseOk(status)
       THEN /\ pc' = "parsing"
            /\ trace' = [trace EXCEPT !.statusRead = TRUE, !.bodyRead = TRUE]
            /\ UNCHANGED outcome
       ELSE /\ pc' = "done"
            /\ trace' = [trace EXCEPT !.statusRead = TRUE]
            /\ outcome' = Settle(outcome, Rejected(StatusError(status)))
    /\ UNCHANGED <<preloadProductLogos, result, images>>
    /\ UNCHANGED vars

\* response.json() settles; on a parsed body the records are converted and,
\* if asked for, every logo starts loading before Promise.all is awaited.
jsonSettles ==
    /\ pc = "parsing"
    /\ LET parsed == ResponseJson(response.body)
           raw == IF parsed.isNull THEN <<>> ELSE parsed.value
           converted == ConvertAll(raw)
       IN  IF parsed.thrown
           THEN /\ pc' = "done"
                /\ outcome' = Settle(outcome, Rejected(JsonSyntaxError))
                /\ UNCHANGED <<result, images, trace>>
           ELSE /\ result' = converted
                /\ IF preloadProductLogos
                   THEN /\ images' = PreloadImages(converted)
                        /\ trace' = [trace EXCEPT !.converted = Len(converted),
                                                  !.imageRequests = @ + Len(images')]
                        /\ IF converted = <<>>
                           THEN pc' = "done" /\ outcome' = Settle(outcome, Fulfilled(converted))
                           ELSE pc' = "preloading" /\ UNCHANGED outcome
                   ELSE /\ pc' = "done"
                        /\ outcome' = Settle(outcome, Fulfilled(converted))
                        /\ trace' = [trace EXCEPT !.converted = Len(converted)]
                        /\ UNCHANGED images
    /\ UNCHANGED <<preloadProductLogos, response>>
    /\ UNCHANGED vars

\* image.onload of the k-th image: its promise resolves; Promise.all resolves
\* with the last one, and getProductInstances returns result.
imageOnload(k) ==
    /\ k \in 1..Len(images)
    /\ images[k] = "loading"
    /\ images' = [images EXCEPT ![k] = "loaded"]
    /\ trace' = [trace EXCEPT !.completions = Append(@, [image |-> k, ok |-> TRUE])]
    /\ IF \A j \in 1..Len(images) : images'[j] = "loaded"
       THEN pc' = "done" /\ outcome' = Settle(outcome, Fulfilled(result))
       ELSE UNCHANGED <<pc, outcome>>
    /\ UNCHANGED <<preloadProductLogos, response, result>>
    /\ UNCHANGED vars

\* Mutant of imageOnerror: image.onerror = resolve.
imageOnerrorResolving(k) ==
    /\ k \in 1..Len(images)
    /\ images[k] = "loading"
    /\ images' = [images EXCEPT ![k] = "failed"]
    /\ trace' = [trace EXCEPT !.completions = Append(@, [image |-> k, ok |-> FALSE])]
    /\ IF \A j \in 1..Len(images) : images'[j] # "loading"
       THEN pc' = "done" /\ outcome' = Settle(outcome, Fulfilled(result))
       ELSE UNCHANGED <<pc, outcome>>
    /\ UNCHANGED <<preloadProductLogos, response, result>>
    /\ UNCHANGED vars

\* image.onerror of the k-th image: its promise rejects with the event, and so
\* does Promise.all unless it is settled.
imageOnerror(k) ==
    /\ k \in 1..Len(images)
    /\ images[k] = "loading"
    /\ images' = [images EXCEPT ![k] = "failed"]
    /\ trace' = [trace EXCEPT !.completions = Append(@, [image |-> k, ok |-> FALSE])]
    /\ pc' = "done"
    /\ outcome' = Settle(outcome, Rejected(ImageErrorEvent(k)))
    /\ UNCHANGED <<preloadProductLogos, response, result>>
    /\ UNCHANGED vars

NextService ==
    \/ \E preload \in BOOLEAN : getProductInstances(preload)
    \/ \E message \in TransportMessages : fetchRejects(message)
    \/ \E status \in Statuses, body \in Bodies : fetchResolves(status, body)
    \/ jsonSettles
    \/ \E k \in 1..MaxRawInstances : imageOnload(k)
    \/ \E k \in 1..MaxRawInstances : imageOnerror(k)

----------------------------------------------------------------------------
(* Specifications. *)

\* The simulator is constructed; no call of the service is under way.
InitSimulator == Init /\ ServiceIdle

\* The service is idle; the simulator is constructed and left alone.
InitService == ServiceIdle /\ Init

\* The simulator on its own: no call of the service is under way.
Spec == InitSimulator /\ [][Next]_allVars

\* The handlers on their own.
SpecHandlers == InitSimulator /\ [][NextHandlers]_allVars

\* The service on its own: the simulator is not mounted.
SpecService == InitService /\ [][NextService]_allVars

----------------------------------------------------------------------------
(* Vocabulary of the properties. *)

\* Identity of a flavor: (owning-instance identifier, flavor name).
SameIdentity(f, g) == f.instance = g.instance /\ f.name = g.name

\* s is in canonical order: price ascending, then name, then owning instance,
\* with no two entries at the same place of the order.
IsCanonical(s) ==
    \A j, k \in 1..Len(s) :
        j < k =>
            \/ s[j].price < s[k].price
            \/ s[j].price = s[k].price /\ s[j].name < s[k].name
            \/ s[j].price = s[k].price /\ s[j].name = s[k].name /\ s[j].instance < s[k].instance

\* The flavors of s whose identity is not that of f, in the order of s.
WithoutIdentity(s, f) ==
    LET Differs(g) == ~SameIdentity(g, f)
    IN  SelectSeq(s, Differs)

\* The sum of the prices of a set of flavors.
RECURSIVE PriceOfSet(_)
PriceOfSet(S) ==
    IF S = {} THEN 0
    ELSE LET f == CHOOSE g \in S : TRUE
         IN  f.price + PriceOfSet(S \ {f})

OwnedBy(id) == {f \in AllFlavors : f.instance = id}

----------------------------------------------------------------------------
(* Properties. *)

\* C1: selectInstance(instance) can be chosen in every state, for every
\* instance of the catalog; it makes the given instance the active one whatever
\* the previous one was, and leaves the selected flavors as they were, those
\* of a previously active instance included.
C1_SelectInstanceKeepsFlavors ==
    /\ InstanceIds \subseteq ProductInstanceButtons
    /\ last.op = "selectInstance" =>
           /\ selectedProductInstance = last.instance
           /\ selectedFlavors = last.selectedFlavors

\* C1 witness: a switch from one instance to another one, made while a flavor
\* of the first was selected, which is still selected.
C1_Witness ==
    /\ last.op = "selectInstance"
    /\ last.selectedProductInstance # Null
    /\ last.selectedProductInstance # selectedProductInstance
    /\ \E f \in Range(selectedFlavors) : f.instance = last.selectedProductInstance

C3_AddTwiceIsAddOnce ==
    (last.op = "addFlavor" /\ last.afterAdd) => selectedFlavors = last.selectedFlavors

\* C4: in every state the selected flavors are in canonical order: price
\* ascending, ties by name, then by owning-instance identifier, whatever the
\* order of the additions and removals.
C4_SelectedIsCanonical == IsCanonical(selectedFlavors)

\* C4 witness: an addFlavor whose flavor did not stay at the end of the
\* sequence, placed by a tie on price.
C4_Witness ==
    /\ last.op = "addFlavor"
    /\ Len(selectedFlavors) >= 3
    /\ selectedFlavors # Append(last.selectedFlavors, last.flavor)
    /\ \E g \in Range(last.selectedFlavors) : g.price = last.flavor.price

\* C5: addFlavor(f), for f not selected, followed by removeFlavor(f) gives back
\* the selected sequence and the active instance of before the addFlavor.
C5_AddRemoveRoundTrip ==
    (last.op = "removeFlavor" /\ last.afterAdd /\ last.flavor \notin Range(last.prior)) =>
        /\ selectedFlavors = last.prior
        /\ selectedProductInstance = last.priorInstance

\* C5 witness: such a round trip over a selection of two flavors, the added
\* flavor having been placed before one of them.
C5_Witness ==
    /\ last.op = "removeFlavor"
    /\ last.afterAdd
    /\ last.flavor \notin Range(last.prior)
    /\ Len(last.prior) >= 2
    /\ last.selectedFlavors # Append(last.prior, last.flavor)

\* C6: removeFlavor(f) removes every selected flavor of the identity of f and
\* keeps every other one; when no such flavor is selected it changes neither
\* the selected flavors nor the active instance.
C6_RemoveByIdentity ==
    last.op = "removeFlavor" =>
        /\ selectedFlavors = WithoutIdentity(last.selectedFlavors, last.flavor)
        /\ selectedProductInstance = last.selectedProductInstance
        /\ (~\E g \in Range(last.selectedFlavors) : SameIdentity(g, last.flavor)) =>
               selectedFlavors = last.selectedFlavors

\* C6 witness: removeFlavor of a flavor that is not selected, while a flavor
\* of the same name and another of the same instance are.
C6_Witness ==
    /\ last.op = "removeFlavor"
    /\ last.flavor \notin Range(last.selectedFlavors)
    /\ \E g \in Range(selectedFlavors) : g.name = last.flavor.name
    /\ \E g \in Range(selectedFlavors) : g.instance = last.flavor.instance

\* C7: the selectable-flavor view is the flavors of the active instance less
\* those of the identity of a selected flavor, in canonical order; it is empty
\* when no instance is active and shares no flavor with the selected view.
C7_SelectableView ==
    LET owned == IF selectedProductInstance = Null THEN {}
                 ELSE OwnedBy(selectedProductInstance)
        expected == {f \in owned : \A g \in Range(selectedFlavors) : ~SameIdentity(f, g)}
    IN  /\ Range(renderProductFlavors) = expected
        /\ Len(renderProductFlavors) = Cardinality(expected)
        /\ IsCanonical(renderProductFlavors)
        /\ selectedProductInstance = Null => renderProductFlavors = <<>>
        /\ Range(renderProductFlavors) \cap Range(renderSelectedFlavors) = {}

\* C7 witness: an instance is active, one of its flavors is selected with a
\* flavor of another instance, and the view offers what is left of its flavors.
C7_Witness ==
    /\ selectedProductInstance # Null
    /\ \E f \in Range(selectedFlavors) : f.instance = selectedProductInstance
    /\ \E f \in Range(selectedFlavors) : f.instance # selectedProductInstance
    /\ renderProductFlavors # <<>>
    /\ Len(renderProductFlavors) < FlavorsPerInstance

\* C8: the running total is the sum of the prices of the selected flavors,
\* those of a previously active instance included; it is 0 when nothing is
\* selected, and 519.04 for the prices 419.04 and 100.0.
C8_RunningTotal ==
    /\ renderHeader = PriceOfSet(Range(renderSelectedFlavors))
    /\ selectedFlavors = <<>> => renderHeader = 0
    /\ (/\ Len(selectedFlavors) = 2
        /\ {selectedFlavors[k].price : k \in 1..Len(selectedFlavors)} = {419040, 100000})
           => renderHeader = 519040

\* C8 witness: the prices 419.04 and 100.0 are selected, one of them of a
\* flavor of an instance that is no longer the active one.
C8_Witness ==
    /\ Len(selectedFlavors) = 2
    /\ {selectedFlavors[k].price : k \in 1..Len(selectedFlavors)} = {419040, 100000}
    /\ \E f \in Range(selectedFlavors) : f.instance # selectedProductInstance
    /\ renderHeader = 519040

\* C9: with flavors added only from the selectable-flavor view, a flavor
\* enters the selected flavors only by an addFlavor, and it is then a flavor
\* of the instance active at that moment.
C9_AddedFromActiveInstance ==
    /\ last.op = "addFlavor" =>
           /\ last.selectedProductInstance # Null
           /\ last.flavor \in Range(InstanceFlavors(last.selectedProductInstance))
           /\ Range(selectedFlavors) \subseteq Range(last.selectedFlavors) \cup {last.flavor}
    /\ last.op # "addFlavor" => Range(selectedFlavors) \subseteq Range(last.selectedFlavors)

\* C9 witness: a flavor is added while a flavor of another instance, added
\* when that one was active, is selected.
C9_Witness ==
    /\ last.op = "addFlavor"
    /\ last.flavor \in Range(selectedFlavors)
    /\ \E g \in Range(selectedFlavors) : g.instance # last.flavor.instance

----------------------------------------------------------------------------
(* Vocabulary of the properties of the service. *)

\* FetchFailure: the error _fetchProductInstances builds.
IsFetchFailure(promise) ==
    /\ promise.state = "rejected"
    /\ promise.reason.name = "Error"
    /\ promise.reason.intro = "We could not fetch product instances."

\* ImagePreloadFailure: the error event of an image.
IsImagePreloadFailure(promise) ==
    /\ promise.state = "rejected"
    /\ promise.reason.name = "Event"
    /\ promise.reason.cause = "error"

NoImageRequested == images = <<>> /\ trace.imageRequests = 0

\* The images that failed, in the order of their error events.
Failures == SelectSeq(trace.completions, LAMBDA c : ~c.ok)

\* The raw records a parsed body holds.
RecordsOf(body) == IF body.text = "array" THEN body.records ELSE <<>>

----------------------------------------------------------------------------
(* Properties of the service. *)

\* C11: when the catalog GET answers a status that is no success, the call
\* rejects with a FetchFailure that carries that status; nothing is returned,
\* no record is converted and no image is requested.
C11_StatusFailure ==
    (trace.statusRead /\ ~(response.status \in 200..299)) =>
        /\ IsFetchFailure(outcome)
        /\ outcome.reason.status = response.status
        /\ outcome.value = <<>>
        /\ result = <<>> /\ trace.converted = 0
        /\ ~trace.bodyRead
        /\ NoImageRequested

\* C11 witness: status 500 answered to a call that asked for the logos.
C11_Witness ==
    /\ response.status = 500
    /\ response.body.records # <<>>
    /\ preloadProductLogos
    /\ outcome.state = "rejected"

\* C12: when the catalog GET fails in transport, the call rejects with a
\* FetchFailure whose message advises to retry and holds the message of the
\* transport error; neither status nor body is read, no image is requested.
C12_TransportFailure ==
    trace.fetchError # "" =>
        /\ IsFetchFailure(outcome)
        /\ outcome.reason.advice = "Please retry later."
        /\ outcome.reason.cause = trace.fetchError
        /\ ~trace.statusRead /\ ~trace.bodyRead
        /\ result = <<>>
        /\ NoImageRequested

\* C12 witness: fetch() rejected a call that asked for the logos.
C12_Witness ==
    /\ trace.fetchError = "Failed to fetch"
    /\ preloadProductLogos
    /\ pc = "done"

\* C13: when the catalog GET succeeds with a missing or empty body, the call
\* resolves with an empty catalog, and requests no image when it was asked
\* for the logos.
C13_EmptyBodyIsEmptyCatalog ==
    (pc = "done" /\ trace.bodyRead /\ response.body.text \in {"empty", "null"}) =>
        /\ outcome = Fulfilled(<<>>)
        /\ NoImageRequested

\* C14: with the logos asked for, the call rejects with an
\* ImagePreloadFailure exactly when a logo failed, whatever the others did,
\* and it resolves, with the converted catalog, exactly when all have loaded.
C14_AllOrNothing ==
    /\ IsImagePreloadFailure(outcome) <=> \E k \in 1..Len(images) : images[k] = "failed"
    /\ (preloadProductLogos /\ outcome.state = "fulfilled") =>
           /\ \A k \in 1..Len(images) : images[k] = "loaded"
           /\ outcome.value = result
           /\ Len(images) = Len(RecordsOf(response.body))
    /\ (images # <<>> /\ \A k \in 1..Len(images) : images[k] = "loaded") =>
           outcome = Fulfilled(result)
    /\ (\E k \in 1..Len(images) : images[k] = "loading") => outcome.state # "fulfilled"

\* C14 witness: of three logos two have loaded and one has failed.
C14_Witness ==
    /\ Len(images) = 3
    /\ Cardinality({k \in 1..3 : images[k] = "loaded"}) = 2
    /\ Cardinality({k \in 1..3 : images[k] = "failed"}) = 1
    /\ IsImagePreloadFailure(outcome)

\* C15: every flavor of every raw record is stored with its raw price
\* multiplied by 41.904, once; the raw price 10 is stored as 419.04.
C15_PriceConversion ==
    LET raw == RecordsOf(response.body)
    IN  result # <<>> =>
            /\ Len(result) = Len(raw)
            /\ \A k \in 1..Len(result) :
                   /\ Len(result[k].flavors) = Len(raw[k].flavors)
                   /\ \A j \in 1..Len(raw[k].flavors) :
                          /\ result[k].flavors[j].price = raw[k].flavors[j].price * 41904
                          /\ raw[k].flavors[j].price = 10 => result[k].flavors[j].price = 419040

\* C15 witness: a converted catalog with a flavor of raw price 10.
C15_Witness ==
    /\ Len(result) >= 2
    /\ \E k \in 1..Len(result) : \E j \in 1..Len(result[k].flavors) :
           /\ response.body.records[k].flavors[j].price = 10
           /\ result[k].flavors[j].price = 419040

\* C16: the call rejects with the error of the logo that failed first; logos
\* still loading are left to complete, and what they do afterwards does not
\* change the outcome.
C16_FirstFailureWins ==
    /\ Failures # <<>> =>
           /\ IsImagePreloadFailure(outcome)
           /\ outcome.reason.target = Failures[1].image
    /\ IsImagePreloadFailure(outcome) => Failures # <<>>

\* C16 witness: a second logo failed and a third loaded after the rejection.
C16_Witness ==
    /\ Len(Failures) >= 2
    /\ Len(trace.completions) = 3
    /\ trace.completions[1].ok = FALSE
    /\ trace.completions[3].ok = TRUE
    /\ outcome.reason.target = trace.completions[1].image

\* C17: logos are requested only after the catalog GET has succeeded and every
\* record is converted; asked for, there is one request for each instance, all
\* issued before any completes; not asked for, there is none and the call
\* resolves with the converted catalog.
C17_PreloadsAfterConversion ==
    /\ pc \in {"idle", "fetching", "parsing"} => NoImageRequested
    /\ images # <<>> =>
           /\ preloadProductLogos
           /\ response.status \in 200..299 /\ trace.bodyRead
           /\ trace.converted = Len(RecordsOf(response.body))
           /\ Len(result) = Len(RecordsOf(response.body))
    /\ (preloadProductLogos /\ pc \in {"preloading", "done"} /\ outcome.state # "rejected") =>
           /\ Len(images) = Len(result)
           /\ trace.imageRequests = Len(result)
    /\ trace.completions # <<>> => Len(images) = Len(result)
    /\ ~preloadProductLogos =>
           /\ NoImageRequested
           /\ (pc = "done" /\ trace.bodyRead /\ response.body.text # "empty") =>
                  outcome = Fulfilled(result) /\ Len(result) = Len(RecordsOf(response.body))

\* C17 witness: three logos were requested and the first completion has come.
C17_Witness ==
    /\ Len(images) = 3
    /\ trace.imageRequests = 3
    /\ Len(trace.completions) = 1

\* C18: a call issues one catalog GET, whatever its outcome; once it has
\* failed it issues no catalog request and no image request any more.
C18_OneRequestNoRetry ==
    /\ pc # "idle" => trace.catalogRequests = 1
    /\ outcome.state = "rejected" =>
           /\ pc = "done"
           /\ trace.catalogRequests = 1
           /\ trace.imageRequests = Len(images)
           /\ IsFetchFailure(outcome) => trace.imageRequests = 0

\* C18 witness: the call was rejected for a logo and the other logos completed.
C18_Witness ==
    /\ IsImagePreloadFailure(outcome)
    /\ Len(trace.completions) = 3
    /\ trace.catalogRequests = 1

----------------------------------------------------------------------------
(* Properties of the simulator, continued. *)

\* C19: rendering and selecting leave the catalog array that was supplied,
\* and the flavor array of every instance, in the order they were supplied in.
C19_CatalogLeftInOrder == [][productInstances' = productInstances]_allVars

====
